---- MODULE Spec2Model ----
(***************************************************************************)
(* Model of macros/src/validation.rs of smlang-rs: the three coherency     *)
(* validators of a parsed state machine (action call signatures, guard     *)
(* call signatures, unreachable transitions) and `validate`, which runs    *)
(* them in sequence.                                                       *)
(*                                                                         *)
(* The validators are pure functions of a ParsedStateMachine and of the    *)
(* iteration order of its hash maps.  The state machine below builds a     *)
(* ParsedStateMachine transition by transition (the parser's job) and then *)
(* applies one validator to it, under every iteration order.               *)
(***************************************************************************)
EXTENDS Integers, Sequences, FiniteSets, TLC

VARIABLES
    sm,       \* the ParsedStateMachine handed to the validators
    op,       \* "parse" while the model is built, then the function that was called
    res,      \* the Result the called function returned
    ran,      \* the validators `validate` ran, in order
    tracked   \* the first-seen signature map (`actions` / `guards`) at return

vars == <<sm, op, res, ran, tracked>>

----------------------------------------------------------------------------
(* Bounds of the model. *)

\* Most transitions of a model checked by the signature validators.
MaxSigTransitions == 2

\* Most transitions of a model checked by the reachability validator.
MaxReachTransitions == 3

\* Most transitions of a model checked by `validate`.
MaxValidateTransitions == 3

\* State names and event names are separate name spaces of the DSL; "Run" is
\* used in both.
StateNames == {"Idle", "Run"}
EventNames == {"Run", "Tick"}
DataTypes == {"u32"}

----------------------------------------------------------------------------
(* Option<T>: None is the empty sequence, Some(x) the sequence <<x>>. *)

None == <<>>
Some(x) == <<x>>

\* HashMap::get
Get(map, key) == IF key \in DOMAIN map THEN Some(map[key]) ELSE None

\* Every map from a subset of `keys` to DataTypes (DataDefinitions.data_types).
DataDefinitions(keys) == UNION {[d -> DataTypes] : d \in SUBSET keys}

----------------------------------------------------------------------------
(* Guard expressions (parser::transition::GuardExpression): a leaf is a    *)
(* guard reference, an inner node a boolean combinator over `args`.        *)

AsyncIdent(ident, is_async) == [ident |-> ident, is_async |-> is_async]

Guard(ident, is_async) ==
    [node |-> "guard", ident |-> ident, is_async |-> is_async, args |-> <<>>]
Not(e) == [node |-> "not", ident |-> "", is_async |-> FALSE, args |-> <<e>>]
And(l, r) == [node |-> "and", ident |-> "", is_async |-> FALSE, args |-> <<l, r>>]
Or(l, r) == [node |-> "or", ident |-> "", is_async |-> FALSE, args |-> <<l, r>>]

\* The guard references of an expression in the order visit_guards hands them
\* to its callback.
RECURSIVE GuardLeaves(_)
GuardLeaves(e) ==
    IF e.node = "guard"
    THEN <<AsyncIdent(e.ident, e.is_async)>>
    ELSE IF Len(e.args) = 1
         THEN GuardLeaves(e.args[1])
         ELSE GuardLeaves(e.args[1]) \o GuardLeaves(e.args[2])

----------------------------------------------------------------------------
(* Results. *)

Ok == [kind |-> "ok", ident |-> "", in_state |-> "", event |-> ""]

\* "Action `{}` can only be reused when all input states, events, and output
\* states have the same data"
ActionError(action) ==
    [kind |-> "action_signature", ident |-> action, in_state |-> "", event |-> ""]

\* "Guard `{}` can only be reused when all input states and events have the
\* same data"
GuardError(guard) ==
    [kind |-> "guard_signature", ident |-> guard, in_state |-> "", event |-> ""]

\* "{} + {}: [{}] : guarded transition is unreachable because it follows an
\* unguarded transition, which handles all cases"
UnreachableError(in_state, event) ==
    [kind |-> "unreachable", ident |-> "", in_state |-> in_state, event |-> event]

\* "{} + {}: State and event combination specified multiple times, remove
\* duplicates."
DuplicateError(in_state, event) ==
    [kind |-> "duplicate", ident |-> "", in_state |-> in_state, event |-> event]

----------------------------------------------------------------------------
(* FunctionSignature *)

FunctionSignature_new(input_data, event_data, output_data, is_async) ==
    LET a1 == IF input_data # None THEN <<input_data[1]>> ELSE <<>>
        input_arguments ==
            IF event_data # None THEN Append(a1, event_data[1]) ELSE a1
    IN  [arguments |-> input_arguments,
         result |-> output_data,
         is_async |-> is_async]

FunctionSignature_new_guard(input_state, event, is_async) ==
    FunctionSignature_new(input_state, event, None, is_async)

\* Faulty variant of the derived equality: the synchrony flag is not compared.
SignatureEqIgnoringAsync(recorded, signature) ==
    /\ recorded.arguments = signature.arguments
    /\ recorded.result = signature.result

\* Faulty variant of the derived equality: a recorded signature without arguments
\* matches every signature.
SignatureEqEmptyMatchesAll(recorded, signature) ==
    \/ recorded.arguments = <<>>
    \/ recorded = signature

\* #[derive(PartialEq)]: all fields are compared.
SignatureEq(recorded, signature) ==
    /\ recorded.arguments = signature.arguments
    /\ recorded.result = signature.result
    /\ recorded.is_async = signature.is_async

----------------------------------------------------------------------------
(* The ParsedStateMachine.                                                 *)
(*                                                                         *)
(* states_events_mapping maps every state name to a map from event name to *)
(* an EventMapping [event, transitions]; a Transition is                   *)
(* [guard, action, out_state] with guard and action Options.               *)

Transition(guard, action, out_state) ==
    [guard |-> guard, action |-> action, out_state |-> out_state]

EmptyMapping == [s \in StateNames |-> <<>>]

\* The parser's insertion of `in_state + event [guard] / action = out_state`:
\* a new EventMapping under the event's name, or one more transition at the
\* end of the existing one.
AddTransition(mapping, in_state, event, t) ==
    LET events == mapping[in_state]
        em == IF event \in DOMAIN events
              THEN [events[event] EXCEPT !.transitions = Append(@, t)]
              ELSE [event |-> event, transitions |-> <<t>>]
    IN  [mapping EXCEPT ![in_state] =
            [e \in (DOMAIN events) \cup {event} |->
                IF e = event THEN em ELSE events[e]]]

\* The (state name, inner key) pairs of the mapping.
Bundles(mapping) ==
    {b \in (DOMAIN mapping) \X EventNames : b[2] \in DOMAIN mapping[b[1]]}

NumTransitions(mapping) ==
    LET RECURSIVE Sum(_)
        Sum(bs) == IF bs = {} THEN 0
                   ELSE LET b == CHOOSE x \in bs : TRUE
                        IN  Len(mapping[b[1]][b[2]].transitions) + Sum(bs \ {b})
    IN  Sum(Bundles(mapping))

\* The orders in which the nested loops `for (k1, v1) in map { for (k2, v2) in
\* v1 { .. } }` can visit the bundles: a HashMap iterates in an unspecified
\* order; the bundles of one state are visited together.
IterationOrders(mapping) ==
    LET bs == Bundles(mapping)
        n == Cardinality(bs)
    IN  {o \in [1..n -> bs] :
            /\ \A i, j \in 1..n : i # j => o[i] # o[j]
            /\ \A i, j, k \in 1..n :
                  (i < j /\ j < k /\ o[i][1] = o[k][1]) => o[j][1] = o[i][1]}

\* The call sites in visiting order: each transition with the keys it is
\* stored under and the EventMapping's event.
RECURSIVE CallSites(_, _)
CallSites(mapping, order) ==
    IF order = <<>>
    THEN <<>>
    ELSE LET b == Head(order)
             em == mapping[b[1]][b[2]]
         IN  [i \in 1..Len(em.transitions) |->
                 [in_state_name |-> b[1],
                  key |-> b[2],
                  event |-> em.event,
                  transition |-> em.transitions[i]]]
             \o CallSites(mapping, Tail(order))

----------------------------------------------------------------------------
(* validate_action_signatures *)

\* The signature computed at a call site: the second loop variable, named
\* out_state_name, is the key of the inner map, and the output data is looked
\* up under it.
ActionSignatureAt(m, site) ==
    LET in_state_data == Get(m.state_data, site.in_state_name)
        out_state_data == Get(m.state_data, site.key)
        event_data == Get(m.event_data, site.event)
    IN  FunctionSignature_new(in_state_data, event_data, out_state_data,
                              site.transition.action[1].is_async)

RECURSIVE ActionLoop(_, _, _)
ActionLoop(m, sites, actions) ==
    IF sites = <<>>
    THEN [res |-> Ok, tracked |-> actions]
    ELSE LET site == Head(sites)
         IN  IF site.transition.action = None
             THEN ActionLoop(m, Tail(sites), actions)
             ELSE LET action == site.transition.action[1].ident
                      signature == ActionSignatureAt(m, site)
                      \* entry(..).or_insert_with(..)
                      actions1 == IF action \in DOMAIN actions
                                  THEN actions
                                  ELSE actions @@ (action :> signature)
                  IN  IF ~SignatureEq(actions1[action], signature)
                      THEN [res |-> ActionError(action), tracked |-> actions1]
                      ELSE ActionLoop(m, Tail(sites), actions1)

validate_action_signatures(m, order) ==
    ActionLoop(m, CallSites(m.states_events_mapping, order), <<>>)

----------------------------------------------------------------------------
(* validate_guard_signatures *)

\* Faulty variant: the guard's signature is computed as an action's is, with
\* the data type of the transition's target state as output data.
GuardSignatureAtWithTarget(m, site, guard) ==
    FunctionSignature_new(Get(m.state_data, site.in_state_name),
                          Get(m.event_data, site.event),
                          Get(m.state_data, site.transition.out_state),
                          guard.is_async)

\* The signature computed for a guard reference: the closure handed to
\* visit_guards reads the source state's data, the event's data and the
\* leaf's own synchrony flag.
GuardSignatureAt(m, site, guard) ==
    LET in_state_data == Get(m.state_data, site.in_state_name)
        event_data == Get(m.event_data, site.event)
    IN  FunctionSignature_new_guard(in_state_data, event_data, guard.is_async)

\* The guard references in visiting order, each with its signature.
RECURSIVE GuardCalls(_, _)
GuardCalls(m, sites) ==
    IF sites = <<>>
    THEN <<>>
    ELSE LET site == Head(sites)
             leaves == IF site.transition.guard = None
                       THEN <<>>
                       ELSE GuardLeaves(site.transition.guard[1])
         IN  [i \in 1..Len(leaves) |->
                 [ident |-> leaves[i].ident,
                  signature |-> GuardSignatureAt(m, site, leaves[i])]]
             \o GuardCalls(m, Tail(sites))

\* The closure's body, call after call; the first Err ends visit_guards and,
\* through `res?`, the validator.
RECURSIVE GuardLoop(_, _)
GuardLoop(calls, guards) ==
    IF calls = <<>>
    THEN [res |-> Ok, tracked |-> guards]
    ELSE LET guard == Head(calls).ident
             signature == Head(calls).signature
             guards1 == IF guard \in DOMAIN guards
                        THEN guards
                        ELSE guards @@ (guard :> signature)
         IN  IF ~SignatureEq(guards1[guard], signature)
             THEN [res |-> GuardError(guard), tracked |-> guards1]
             ELSE GuardLoop(Tail(calls), guards1)

validate_guard_signatures(m, order) ==
    GuardLoop(GuardCalls(m, CallSites(m.states_events_mapping, order)), <<>>)

----------------------------------------------------------------------------
(* validate_unreachable_transitions *)

\* Faulty variant of the scan: a guarded transition after an unguarded one passes.
RECURSIVE ScanTransitionsGuardedPasses(_, _, _, _)
ScanTransitionsGuardedPasses(in_state, event, transitions, unguarded_count) ==
    IF transitions = <<>>
    THEN Ok
    ELSE IF Head(transitions).guard # None
         THEN ScanTransitionsGuardedPasses(in_state, event, Tail(transitions),
                                           unguarded_count)
         ELSE IF unguarded_count + 1 > 1
              THEN DuplicateError(in_state, event)
              ELSE ScanTransitionsGuardedPasses(in_state, event,
                                                Tail(transitions),
                                                unguarded_count + 1)

\* Faulty variant of the scan: the duplicate test is off by one.
RECURSIVE ScanTransitionsTwoUnguarded(_, _, _, _)
ScanTransitionsTwoUnguarded(in_state, event, transitions, unguarded_count) ==
    IF transitions = <<>>
    THEN Ok
    ELSE IF Head(transitions).guard # None
         THEN IF unguarded_count > 0
              THEN UnreachableError(in_state, event)
              ELSE ScanTransitionsTwoUnguarded(in_state, event,
                                               Tail(transitions),
                                               unguarded_count)
         ELSE IF unguarded_count + 1 > 2
              THEN DuplicateError(in_state, event)
              ELSE ScanTransitionsTwoUnguarded(in_state, event,
                                               Tail(transitions),
                                               unguarded_count + 1)

\* `for t in &event_mapping.transitions`, from the count so far.
RECURSIVE ScanTransitions(_, _, _, _)
ScanTransitions(in_state, event, transitions, unguarded_count) ==
    IF transitions = <<>>
    THEN Ok
    ELSE IF Head(transitions).guard # None
         THEN IF unguarded_count > 0
              THEN UnreachableError(in_state, event)
              ELSE ScanTransitions(in_state, event, Tail(transitions),
                                   unguarded_count)
         ELSE IF unguarded_count + 1 > 1
              THEN DuplicateError(in_state, event)
              ELSE ScanTransitions(in_state, event, Tail(transitions),
                                   unguarded_count + 1)

RECURSIVE UnreachableLoop(_, _)
UnreachableLoop(mapping, order) ==
    IF order = <<>>
    THEN Ok
    ELSE LET in_state == Head(order)[1]
             event == Head(order)[2]
             event_mapping == mapping[in_state][event]
             r == IF Len(event_mapping.transitions) > 1
                  THEN ScanTransitions(in_state, event,
                                       event_mapping.transitions, 0)
                  ELSE Ok
         IN  IF r # Ok THEN r ELSE UnreachableLoop(mapping, Tail(order))

\* Faulty variant of the validator: unguarded_count is declared once, outside the
\* loops, and every bundle is scanned.
RECURSIVE CarriedLoop(_, _, _, _)
CarriedLoop(mapping, order, i, unguarded_count) ==
    IF order = <<>>
    THEN Ok
    ELSE LET in_state == Head(order)[1]
             event == Head(order)[2]
             ts == mapping[in_state][event].transitions
         IN  IF i > Len(ts)
             THEN CarriedLoop(mapping, Tail(order), 1, unguarded_count)
             ELSE IF ts[i].guard # None
                  THEN IF unguarded_count > 0
                       THEN UnreachableError(in_state, event)
                       ELSE CarriedLoop(mapping, order, i + 1, unguarded_count)
                  ELSE IF unguarded_count + 1 > 1
                       THEN DuplicateError(in_state, event)
                       ELSE CarriedLoop(mapping, order, i + 1,
                                        unguarded_count + 1)

validate_unreachable_transitions_carried(m, order) ==
    CarriedLoop(m.states_events_mapping, order, 1, 0)

validate_unreachable_transitions(m, order) ==
    UnreachableLoop(m.states_events_mapping, order)

----------------------------------------------------------------------------
(* validate: each `?` returns the validator's error at once.  The three     *)
(* validators iterate the same, unmodified hash maps, hence in one order.   *)

\* Faulty variant of validate: the reachability validator runs first.
validate_reachability_first(m, order) ==
    LET r3 == validate_unreachable_transitions(m, order)
        r1 == validate_action_signatures(m, order).res
        r2 == validate_guard_signatures(m, order).res
    IN  IF r3 # Ok
        THEN [res |-> r3, ran |-> <<"validate_unreachable_transitions">>]
        ELSE IF r1 # Ok
        THEN [res |-> r1,
              ran |-> <<"validate_unreachable_transitions",
                        "validate_action_signatures">>]
        ELSE [res |-> r2,
              ran |-> <<"validate_unreachable_transitions",
                        "validate_action_signatures",
                        "validate_guard_signatures">>]

validate(m, order) ==
    LET r1 == validate_action_signatures(m, order).res
        r2 == validate_guard_signatures(m, order).res
        r3 == validate_unreachable_transitions(m, order)
    IN  IF r1 # Ok
        THEN [res |-> r1, ran |-> <<"validate_action_signatures">>]
        ELSE IF r2 # Ok
        THEN [res |-> r2,
              ran |-> <<"validate_action_signatures",
                        "validate_guard_signatures">>]
        ELSE [res |-> r3,
              ran |-> <<"validate_action_signatures",
                        "validate_guard_signatures",
                        "validate_unreachable_transitions">>]

----------------------------------------------------------------------------
(* The state machine. *)

ActionRefs == {None, Some(AsyncIdent("a", FALSE)), Some(AsyncIdent("a", TRUE)),
               Some(AsyncIdent("b", FALSE))}

\* is_ready, async is_ready, and two nested expressions:
\* is_idle && (is_idle || !is_ready), and the same of async guards.
IsReady == Guard("is_ready", FALSE)
AsyncIsReady == Guard("is_ready", TRUE)
Nested == And(Guard("is_idle", FALSE),
              Or(Guard("is_idle", FALSE), Not(Guard("is_ready", FALSE))))
NestedAsync == And(Guard("is_idle", TRUE),
                   Or(Guard("is_idle", TRUE), Not(Guard("is_ready", TRUE))))

\* The transitions the action validator is applied to: it reads no guard.
ActionMenu ==
    [in_state : StateNames, event : EventNames, out_state : StateNames,
     action : ActionRefs, guard : {None}]

\* The transitions the guard validator is applied to: it reads no action.
GuardMenu ==
    [in_state : StateNames, event : EventNames, out_state : StateNames,
     action : {None},
     guard : {None, Some(IsReady), Some(Nested), Some(NestedAsync)}]

\* The transitions the reachability validator is applied to: guarded or not.
ReachMenu ==
    [in_state : StateNames, event : EventNames, out_state : StateNames,
     action : {None}, guard : {None, Some(IsReady)}]

\* The transitions `validate` is applied to.
ValidateMenu ==
    [in_state : StateNames, event : EventNames, out_state : {"Run"},
     action : {None, Some(AsyncIdent("a", FALSE)), Some(AsyncIdent("a", TRUE))},
     guard : {None}]
    \cup
    [in_state : StateNames, event : EventNames, out_state : {"Run"},
     action : {None}, guard : {Some(IsReady), Some(AsyncIsReady)}]
    \cup
    [in_state : StateNames, event : EventNames, out_state : {"Run"},
     action : {Some(AsyncIdent("a", TRUE))}, guard : {Some(IsReady)}]

\* The parser adds one transition of `menu` to the model.
Parse(menu, max) ==
    /\ op = "parse"
    /\ NumTransitions(sm.states_events_mapping) < max
    /\ \E t \in menu :
          sm' = [sm EXCEPT !.states_events_mapping =
                    AddTransition(@, t.in_state, t.event,
                                  Transition(t.guard, t.action, t.out_state))]
    /\ UNCHANGED <<op, res, ran, tracked>>

HasAction(mapping) ==
    \E b \in Bundles(mapping) :
        \E i \in 1..Len(mapping[b[1]][b[2]].transitions) :
            mapping[b[1]][b[2]].transitions[i].action # None

HasGuard(mapping) ==
    \E b \in Bundles(mapping) :
        \E i \in 1..Len(mapping[b[1]][b[2]].transitions) :
            mapping[b[1]][b[2]].transitions[i].guard # None

\* A model of the signature validators carries actions or guards, not both:
\* neither validator reads what the other one checks.
ParseActionTransition ==
    /\ ~HasGuard(sm.states_events_mapping)
    /\ Parse(ActionMenu, MaxSigTransitions)

ParseGuardTransition ==
    /\ ~HasAction(sm.states_events_mapping)
    /\ Parse(GuardMenu, MaxSigTransitions)

ParseReach == Parse(ReachMenu, MaxReachTransitions)

ParseValidate == Parse(ValidateMenu, MaxValidateTransitions)

\* Each signature validator is called on the models built for it.
CallValidateActionSignatures ==
    /\ op = "parse"
    /\ ~HasGuard(sm.states_events_mapping)
    /\ \E order \in IterationOrders(sm.states_events_mapping) :
          LET r == validate_action_signatures(sm, order)
          IN  /\ res' = r.res
              /\ tracked' = r.tracked
    /\ op' = "validate_action_signatures"
    /\ ran' = <<>>
    /\ UNCHANGED sm

CallValidateGuardSignatures ==
    /\ op = "parse"
    /\ ~HasAction(sm.states_events_mapping)
    /\ \E order \in IterationOrders(sm.states_events_mapping) :
          LET r == validate_guard_signatures(sm, order)
          IN  /\ res' = r.res
              /\ tracked' = r.tracked
    /\ op' = "validate_guard_signatures"
    /\ ran' = <<>>
    /\ UNCHANGED sm

CallValidateUnreachableTransitions ==
    /\ op = "parse"
    /\ \E order \in IterationOrders(sm.states_events_mapping) :
          res' = validate_unreachable_transitions(sm, order)
    /\ op' = "validate_unreachable_transitions"
    /\ ran' = <<>>
    /\ UNCHANGED <<sm, tracked>>

CallValidate ==
    /\ op = "parse"
    /\ \E order \in IterationOrders(sm.states_events_mapping) :
          LET r == validate(sm, order)
          IN  /\ res' = r.res
              /\ ran' = r.ran
    /\ op' = "validate"
    /\ UNCHANGED <<sm, tracked>>

\* Before parsing: no transitions; the data types of states and events.
Start(state_datas, event_datas) ==
    /\ \E sd \in state_datas, ed \in event_datas :
          sm = [states_events_mapping |-> EmptyMapping,
                state_data |-> sd,
                event_data |-> ed]
    /\ op = "parse"
    /\ res = Ok
    /\ ran = <<>>
    /\ tracked = <<>>

\* Either state may carry data, and so may the event Tick.
InitSig == Start(DataDefinitions(StateNames), DataDefinitions({"Tick"}))

NextSig ==
    \/ ParseActionTransition
    \/ ParseGuardTransition
    \/ CallValidateActionSignatures
    \/ CallValidateGuardSignatures

SpecSig == InitSig /\ [][NextSig]_vars

\* The reachability validator reads no data type: the models carry none.
InitReach == Start({<<>>}, {<<>>})

NextReach ==
    \/ ParseReach
    \/ CallValidateUnreachableTransitions

SpecReach == InitReach /\ [][NextReach]_vars

\* The call sites of the models given to `validate` differ in their synchrony
\* flags.
InitValidate == Start({<<>>}, {<<>>})

NextValidate ==
    \/ ParseValidate
    \/ CallValidate

SpecValidate == InitValidate /\ [][NextValidate]_vars

----------------------------------------------------------------------------
(* What the claims speak of, stated over the model as a whole (no          *)
(* traversal).                                                             *)

\* Every transition of the model with the (state, event) pair it belongs to.
SiteIds(m) ==
    UNION {{<<b[1], b[2], i>>
            : i \in 1..Len(m.states_events_mapping[b[1]][b[2]].transitions)}
           : b \in Bundles(m.states_events_mapping)}

Site(m, x) ==
    [in_state_name |-> x[1],
     key |-> x[2],
     event |-> m.states_events_mapping[x[1]][x[2]].event,
     transition |-> m.states_events_mapping[x[1]][x[2]].transitions[x[3]]]

SiteSet(m) == {Site(m, x) : x \in SiteIds(m)}

ActionSiteSet(m) == {s \in SiteSet(m) : s.transition.action # None}

\* (source-state data type, event data type, target-state data type), the
\* target being the transition's own.
Triple(m, s) ==
    <<Get(m.state_data, s.in_state_name),
      Get(m.event_data, s.event),
      Get(m.state_data, s.transition.out_state)>>

\* Every guard reference of the model with its transition.
GuardLeafSet(m) ==
    UNION {{[guard |-> GuardLeaves(s.transition.guard[1])[i], site |-> s]
            : i \in 1..Len(GuardLeaves(s.transition.guard[1]))}
           : s \in {x \in SiteSet(m) : x.transition.guard # None}}

\* (source-state data type, event data type)
Pair(m, s) == <<Get(m.state_data, s.in_state_name), Get(m.event_data, s.event)>>

\* The action (guard) has two call sites whose compared signatures differ.
ActionDisagrees(m, ident) ==
    \E s1, s2 \in ActionSiteSet(m) :
        /\ s1.transition.action[1].ident = ident
        /\ s2.transition.action[1].ident = ident
        /\ ActionSignatureAt(m, s1) # ActionSignatureAt(m, s2)

GuardDisagrees(m, ident) ==
    \E l1, l2 \in GuardLeafSet(m) :
        /\ l1.guard.ident = ident
        /\ l2.guard.ident = ident
        /\ GuardSignatureAt(m, l1.site, l1.guard)
              # GuardSignatureAt(m, l2.site, l2.guard)

\* Zero or more guarded transitions, then at most one unguarded one.
WellOrdered(transitions) ==
    \A i \in 1..(Len(transitions) - 1) : transitions[i].guard # None

TransitionsOf(m, in_state, event) ==
    m.states_events_mapping[in_state][event].transitions

ReachErrors == {"unreachable", "duplicate"}

----------------------------------------------------------------------------
(* C1: when the same action identifier appears at two transitions whose    *)
(* (source-state data type, event data type, target-state data type)       *)
(* triples differ, validate_action_signatures returns the violation naming *)
(* that action.                                                            *)
C1_ActionTripleMismatchRejected ==
    op = "validate_action_signatures" =>
        \A s1, s2 \in ActionSiteSet(sm) :
            (/\ s1.transition.action[1].ident = s2.transition.action[1].ident
             /\ Triple(sm, s1) # Triple(sm, s2))
            => res = ActionError(s1.transition.action[1].ident)

(* C2: when all call sites of each action identifier agree on the triple   *)
(* (and, denoting one callable, on its synchrony flag),                    *)
(* validate_action_signatures returns success.                             *)
C2_ActionTripleAgreementAccepted ==
    op = "validate_action_signatures" =>
        ((\A s1, s2 \in ActionSiteSet(sm) :
             s1.transition.action[1].ident = s2.transition.action[1].ident
             => /\ Triple(sm, s1) = Triple(sm, s2)
                /\ s1.transition.action[1].is_async
                      = s2.transition.action[1].is_async)
         => res = Ok)

(* C3: when the same guard identifier is a leaf of the guard expressions   *)
(* of two transitions whose (source-state data type, event data type)      *)
(* pairs differ, at whatever depth, validate_guard_signatures returns a    *)
(* guard-signature violation (which the claim has name that guard).        *)
C3_GuardPairMismatchRejected ==
    op = "validate_guard_signatures" =>
        \A l1, l2 \in GuardLeafSet(sm) :
            (/\ l1.guard.ident = l2.guard.ident
             /\ Pair(sm, l1.site) # Pair(sm, l2.site))
            => res.kind = "guard_signature"

(* C4: validate_unreachable_transitions succeeds if and only if every      *)
(* (state, event) pair with more than one transition holds, in declared    *)
(* order, zero or more guarded transitions followed by at most one         *)
(* unguarded transition.                                                   *)
C4_ReachabilityIffWellOrdered ==
    op = "validate_unreachable_transitions" =>
        (res = Ok <=>
            \A b \in Bundles(sm.states_events_mapping) :
                Len(TransitionsOf(sm, b[1], b[2])) > 1
                => WellOrdered(TransitionsOf(sm, b[1], b[2])))

\* A pair of three transitions [guarded, unguarded, guarded] is rejected as
\* unreachable.
C4_Witness ==
    /\ op = "validate_unreachable_transitions"
    /\ res.kind = "unreachable"
    /\ \E b \in Bundles(sm.states_events_mapping) :
          LET ts == TransitionsOf(sm, b[1], b[2])
          IN  /\ Len(ts) = 3
              /\ ts[1].guard # None
              /\ ts[2].guard = None
              /\ ts[3].guard # None

(* C5: the transitions of a (source state, event) pair are checked         *)
(* together whatever their targets: [unguarded -> C, guarded -> B] is      *)
(* rejected, and [guarded -> B, unguarded -> C] is not blamed, and is      *)
(* accepted when every other pair has one transition.                      *)
C5_GroupedWhateverTheTarget ==
    op = "validate_unreachable_transitions" =>
        \A b \in Bundles(sm.states_events_mapping) :
            LET ts == TransitionsOf(sm, b[1], b[2])
            IN  (Len(ts) = 2 /\ ts[1].out_state # ts[2].out_state) =>
                    /\ (ts[1].guard = None /\ ts[2].guard # None)
                           => res.kind \in ReachErrors
                    /\ (ts[1].guard # None /\ ts[2].guard = None)
                           => /\ res # Ok => <<res.in_state, res.event>> # b
                              /\ (\A c \in Bundles(sm.states_events_mapping) \ {b} :
                                      Len(TransitionsOf(sm, c[1], c[2])) = 1)
                                 => res = Ok

\* Idle + Tick [is_ready] = one state, Idle + Tick = the other: accepted.
C5_Witness ==
    /\ op = "validate_unreachable_transitions"
    /\ res = Ok
    /\ "Tick" \in DOMAIN sm.states_events_mapping["Idle"]
    /\ LET ts == TransitionsOf(sm, "Idle", "Tick")
       IN  /\ Len(ts) = 2
           /\ ts[1].guard # None
           /\ ts[2].guard = None
           /\ ts[1].out_state # ts[2].out_state

(* C6: a (state, event) pair with exactly one transition never makes       *)
(* validate_unreachable_transitions fail, whatever the other pairs hold:   *)
(* a failure names a pair of more than one transition whose own order is   *)
(* at fault.                                                               *)
C6_SingleTransitionNeverFails ==
    op = "validate_unreachable_transitions" =>
        /\ res # Ok =>
              /\ res.kind \in ReachErrors
              /\ <<res.in_state, res.event>> \in Bundles(sm.states_events_mapping)
              /\ Len(TransitionsOf(sm, res.in_state, res.event)) > 1
              /\ ~WellOrdered(TransitionsOf(sm, res.in_state, res.event))
        /\ (\A b \in Bundles(sm.states_events_mapping) :
                Len(TransitionsOf(sm, b[1], b[2])) = 1)
           => res = Ok

\* Three pairs of one transition each, an unguarded one and a guarded one
\* among them: accepted.
C6_Witness ==
    /\ op = "validate_unreachable_transitions"
    /\ res = Ok
    /\ Cardinality(Bundles(sm.states_events_mapping)) = 3
    /\ \E b1, b2 \in Bundles(sm.states_events_mapping) :
          /\ TransitionsOf(sm, b1[1], b1[2])[1].guard = None
          /\ TransitionsOf(sm, b2[1], b2[2])[1].guard # None
    /\ \A b \in Bundles(sm.states_events_mapping) :
          Len(TransitionsOf(sm, b[1], b[2])) = 1

\* Whether a validator rejects the model (in some iteration order).
ActionsFail(m) ==
    \E o \in IterationOrders(m.states_events_mapping) :
        validate_action_signatures(m, o).res # Ok
GuardsFail(m) ==
    \E o \in IterationOrders(m.states_events_mapping) :
        validate_guard_signatures(m, o).res # Ok
ReachabilityFails(m) ==
    \E o \in IterationOrders(m.states_events_mapping) :
        validate_unreachable_transitions(m, o) # Ok

(* C7: validate runs the action validator, then the guard validator, then  *)
(* the reachability validator, returns the error of the first one that     *)
(* fails without running the later ones, and succeeds exactly when all     *)
(* three succeed.                                                          *)
C7_FirstFailureWins ==
    op = "validate" =>
        /\ ran = IF ActionsFail(sm)
                 THEN <<"validate_action_signatures">>
                 ELSE IF GuardsFail(sm)
                 THEN <<"validate_action_signatures",
                        "validate_guard_signatures">>
                 ELSE <<"validate_action_signatures",
                        "validate_guard_signatures",
                        "validate_unreachable_transitions">>
        /\ res.kind \in IF ActionsFail(sm) THEN {"action_signature"}
                        ELSE IF GuardsFail(sm) THEN {"guard_signature"}
                        ELSE IF ReachabilityFails(sm) THEN ReachErrors
                        ELSE {"ok"}

\* A model that violates action consistency, guard consistency and
\* reachability yields the action violation.
C7_Witness ==
    /\ op = "validate"
    /\ ActionsFail(sm)
    /\ GuardsFail(sm)
    /\ ReachabilityFails(sm)
    /\ res.kind = "action_signature"
    /\ ran = <<"validate_action_signatures">>

(* C8: the accept/reject verdict of validate_action_signatures and of      *)
(* validate_guard_signatures is the same in every iteration order of the   *)
(* state and event maps.                                                   *)
C8_VerdictIndependentOfOrder ==
    /\ op = "validate_action_signatures" =>
          \A o \in IterationOrders(sm.states_events_mapping) :
              (validate_action_signatures(sm, o).res = Ok) <=> (res = Ok)
    /\ op = "validate_guard_signatures" =>
          \A o \in IterationOrders(sm.states_events_mapping) :
              (validate_guard_signatures(sm, o).res = Ok) <=> (res = Ok)

\* A rejected model whose first-seen signatures depend on the order.
C8_Witness ==
    /\ op = "validate_action_signatures"
    /\ res # Ok
    /\ \E o \in IterationOrders(sm.states_events_mapping) :
          validate_action_signatures(sm, o).tracked # tracked

(* C9: a guard's call signature never depends on the target state's data   *)
(* type: the result field of every recorded guard signature is absent, and *)
(* a model whose guard references agree, identifier by identifier, on      *)
(* source-state data type, event data type and synchrony flag is accepted  *)
(* by validate_guard_signatures whatever the targets.                      *)
C9_GuardSignatureIgnoresTarget ==
    op = "validate_guard_signatures" =>
        /\ \A g \in DOMAIN tracked : tracked[g].result = None
        /\ (\A l1, l2 \in GuardLeafSet(sm) :
                l1.guard.ident = l2.guard.ident
                => /\ Pair(sm, l1.site) = Pair(sm, l2.site)
                   /\ l1.guard.is_async = l2.guard.is_async)
           => res = Ok

\* A guard used on two transitions from a state with data, to targets of
\* different data types: accepted.
C9_Witness ==
    /\ op = "validate_guard_signatures"
    /\ res = Ok
    /\ \E l1, l2 \in GuardLeafSet(sm) :
          /\ l1.guard = l2.guard
          /\ Pair(sm, l1.site) = Pair(sm, l2.site)
          /\ Get(sm.state_data, l1.site.in_state_name) # None
          /\ Get(sm.state_data, l1.site.transition.out_state)
                # Get(sm.state_data, l2.site.transition.out_state)

\* Two call sites of one identifier with identical data types and different
\* synchrony flags.
ActionFlagsDiffer(m, s1, s2) ==
    /\ s1.transition.action[1].ident = s2.transition.action[1].ident
    /\ Triple(m, s1) = Triple(m, s2)
    /\ s1.transition.action[1].is_async # s2.transition.action[1].is_async

GuardFlagsDiffer(m, l1, l2) ==
    /\ l1.guard.ident = l2.guard.ident
    /\ Pair(m, l1.site) = Pair(m, l2.site)
    /\ l1.guard.is_async # l2.guard.is_async

(* C10, as claimed: two call sites of the same action (guard) identifier   *)
(* with identical data types but different synchrony flags make            *)
(* validate_action_signatures (validate_guard_signatures) fail with the    *)
(* inconsistent-signature violation for that identifier.                   *)
C10_FlagMismatchNamesThatIdentifier ==
    /\ op = "validate_action_signatures" =>
          \A s1, s2 \in ActionSiteSet(sm) :
              ActionFlagsDiffer(sm, s1, s2)
              => res = ActionError(s1.transition.action[1].ident)
    /\ op = "validate_guard_signatures" =>
          \A l1, l2 \in GuardLeafSet(sm) :
              GuardFlagsDiffer(sm, l1, l2) => res = GuardError(l1.guard.ident)

(* C10, amended: such call sites make the validator fail with the          *)
(* inconsistent-signature violation, which names that identifier or        *)
(* another one of the same kind whose call sites have unequal signatures.  *)
C10_FlagMismatchRejected ==
    /\ op = "validate_action_signatures" =>
          \A s1, s2 \in ActionSiteSet(sm) :
              ActionFlagsDiffer(sm, s1, s2)
              => /\ res.kind = "action_signature"
                 /\ ActionDisagrees(sm, res.ident)
    /\ op = "validate_guard_signatures" =>
          \A l1, l2 \in GuardLeafSet(sm) :
              GuardFlagsDiffer(sm, l1, l2)
              => /\ res.kind = "guard_signature"
                 /\ GuardDisagrees(sm, res.ident)

\* is_ready is referenced with both flags from one state on one event, and
\* the violation names is_idle.
C10_Witness ==
    /\ op = "validate_guard_signatures"
    /\ res = GuardError("is_idle")
    /\ \E l1, l2 \in GuardLeafSet(sm) :
          /\ l1.guard.ident = "is_ready"
          /\ GuardFlagsDiffer(sm, l1, l2)

====
